---- MODULE Spec2Model ----
(***************************************************************************)
(* The LRU cache of script.js: a Map from key to Node and a circular       *)
(* doubly linked list of Nodes whose head is the most recently used one.   *)
(* Nodes are heap objects: a node is an identity (an element of NodeIds)   *)
(* and the heap maps the identities in use to their four fields.           *)
(***************************************************************************)
EXTENDS Integers, Sequences, FiniteSets

\* ------------------------------------------------------------------ bounds

\* The largest capacity a cache is constructed with.
MaxCapacity == 3

\* Keys and values the callers use.  -1 is also what get returns on a miss,
\* 0 is a falsy value.
Keys == {"a", "b", "c", "d"}
KeyOrder == <<"a", "b", "c", "d">>
KeyIndex(k) == CHOOSE i \in 1 .. Len(KeyOrder) : KeyOrder[i] = k
KeyBefore(j, k) == KeyIndex(j) < KeyIndex(k)
Values == {-1, 0}

\* Node identities: one for each key and a spare one.
NodeIds == 1 .. (Cardinality(Keys) + 1)

\* A JavaScript Number that is a multiple of one half: whole + (half ? 0.5 : 0).
Num(n) == [whole |-> n, half |-> FALSE]
IsInteger(c) == ~c.half
\* c > 0
Positive(c) == c.whole > 0 \/ (c.whole = 0 /\ c.half)
\* n >= c, for an integer n
AtLeast(n, c) == IF c.half THEN n > c.whole ELSE n >= c.whole
\* n <= c, for an integer n
AtMost(n, c) == n <= c.whole

\* The capacities tried: the integers 0 .. MaxCapacity, and -3 and 1.5.
Capacities ==
  {Num(n) : n \in 0 .. MaxCapacity}
    \cup {Num(0 - 3), [whole |-> 1, half |-> TRUE]}

\* ------------------------------------------------------------------- state

null == 0

VARIABLES
  cache,      \* "null" before any construction, "LRUCache" after (line 94)
  capacity,   \* this.capacity
  map,        \* this.map: key -> node identity
  head,       \* this.head: node identity or null
  heap,       \* node identity -> [key, value, prev, next], the nodes in use
  call,       \* the last call: [op, key, value, cap, after]
  ret,        \* what the last call returned or threw: [kind, value, list]
  before,     \* history: the keys of the map when the last call was made
  lastUse,    \* history: key -> rank of its last get hit or put (0: none)
  ref         \* history: the reference LRU list of [key, value], MRU first

vars == <<cache, capacity, map, head, heap, call, ret, before, lastUse, ref>>

EmptyMap == [k \in {} |-> null]

MapSet(m, k, n) == [x \in (DOMAIN m) \cup {k} |-> IF x = k THEN n ELSE m[x]]
MapDelete(m, k) == [x \in (DOMAIN m) \ {k} |-> m[x]]

\* The cache object as one value, for the methods below.
This == [capacity |-> capacity, map |-> map, head |-> head, heap |-> heap]

\* new Node(key, value) at identity n: prev and next point to itself.
Node(n, key, value) == [key |-> key, value |-> value, prev |-> n, next |-> n]

\* new LRUCache(capacity)
LRUCache(c) == [capacity |-> c, map |-> EmptyMap, head |-> null, heap |-> EmptyMap]

\* ----------------------------------------------------------------- methods
\* Each method takes the cache object c and returns it as the method leaves
\* it.  The field assignments are applied one after the other, as the
\* statements are, so that aliased nodes (tail = head in a ring of one, ...)
\* behave as they do in the code.

SetNext(h, n, m) == [h EXCEPT ![n].next = m]
SetPrev(h, n, m) == [h EXCEPT ![n].prev = m]

\* addToFront(node) without line 32: head stays where it was.
addToFront_headKept(c, node) ==
  IF c.head = null
  THEN [c EXCEPT !.head = node]
  ELSE LET tail == c.heap[c.head].prev
           h1 == SetNext(c.heap, node, c.head)
           h2 == SetPrev(h1, node, tail)
           h3 == SetNext(h2, tail, node)
           h4 == SetPrev(h3, c.head, node)
       IN  [c EXCEPT !.heap = h4]

\* addToFront(node) without line 25: an empty ring keeps head null.
addToFront_emptyKept(c, node) ==
  IF c.head = null
  THEN c
  ELSE LET tail == c.heap[c.head].prev
           h1 == SetNext(c.heap, node, c.head)
           h2 == SetPrev(h1, node, tail)
           h3 == SetNext(h2, tail, node)
           h4 == SetPrev(h3, c.head, node)
       IN  [c EXCEPT !.heap = h4, !.head = node]

\* addToFront(node), lines 23-34.
addToFront(c, node) ==
  IF c.head = null
  THEN [c EXCEPT !.head = node]
  ELSE LET tail == c.heap[c.head].prev
           h1 == SetNext(c.heap, node, c.head)   \* node.next = this.head
           h2 == SetPrev(h1, node, tail)         \* node.prev = tail
           h3 == SetNext(h2, tail, node)         \* tail.next = node
           h4 == SetPrev(h3, c.head, node)       \* this.head.prev = node
       IN  [c EXCEPT !.heap = h4, !.head = node]

\* removeNode(node) without line 41: node.next.prev is not assigned.
removeNode_prevKept(c, node) ==
  IF c.heap[node].next = node
  THEN [c EXCEPT !.head = null]
  ELSE LET h1 == SetNext(c.heap, c.heap[node].prev, c.heap[node].next)
       IN  [c EXCEPT !.heap = h1,
                     !.head = IF c.head = node THEN h1[node].next ELSE c.head]

\* removeNode(node) without lines 42-44: head is not moved off the node.
removeNode_headKept(c, node) ==
  IF c.heap[node].next = node
  THEN [c EXCEPT !.head = null]
  ELSE LET h1 == SetNext(c.heap, c.heap[node].prev, c.heap[node].next)
           h2 == SetPrev(h1, h1[node].next, h1[node].prev)
       IN  [c EXCEPT !.heap = h2]

\* removeNode(node), lines 36-46.
removeNode(c, node) ==
  IF c.heap[node].next = node
  THEN [c EXCEPT !.head = null]
  ELSE LET h1 == SetNext(c.heap, c.heap[node].prev, c.heap[node].next)
           h2 == SetPrev(h1, h1[node].next, h1[node].prev)
       IN  [c EXCEPT !.heap = h2,
                     !.head = IF c.head = node THEN h2[node].next ELSE c.head]

\* moveToFront(node) without line 50.
moveToFront_removeOnly(c, node) == removeNode(c, node)

\* moveToFront(node), lines 48-51.
moveToFront(c, node) == addToFront(removeNode(c, node), node)

\* The nodes the cache object can still reach: through the map, through head,
\* and from those through prev and next.  The others are garbage.
RECURSIVE Closure(_, _)
Closure(h, S) ==
  LET T == S \cup {h[n].prev : n \in S} \cup {h[n].next : n \in S}
  IN  IF T = S THEN S ELSE Closure(h, T)

Roots(c) == {c.map[k] : k \in DOMAIN c.map} \cup ({c.head} \ {null})
Reachable(c) == Closure(c.heap, Roots(c))

\* The cache object with the garbage dropped from the heap.
Collect(c) == [c EXCEPT !.heap = [n \in Reachable(c) |-> c.heap[n]]]

\* The identity of a new object: one that no live object has.  `held` are the
\* identities the running method still holds in locals.  Which of the unused
\* identities `new` returns cannot be observed by the program (it compares
\* nodes only with ===), so the choice is fixed: the one set aside for the
\* key when it is unused, the least unused one otherwise.  States that differ
\* only by a renaming of the nodes are then met once.
Min(S) == CHOOSE x \in S : \A y \in S : x <= y
Slot(key) == Cardinality({k \in Keys : KeyBefore(k, key)}) + 1
Free(c, held) == NodeIds \ (Reachable(c) \cup held)
Fresh(c, held, key) ==
  IF Slot(key) \in Free(c, held) THEN Slot(key) ELSE Min(Free(c, held))

\* state(): the do-while walk along next, from head until head comes back.
\* A walk that does not come back within the number of nodes never would.
RECURSIVE Walk(_, _, _)
Walk(c, current, acc) ==
  LET item == [key |-> c.heap[current].key, value |-> c.heap[current].value]
      nxt == c.heap[current].next
  IN  IF nxt = c.head \/ Len(acc) >= Cardinality(NodeIds)
      THEN Append(acc, item)
      ELSE Walk(c, nxt, Append(acc, item))

\* state() walking along prev instead of next.
stateOf_alongPrev(c) ==
  LET RECURSIVE Back(_, _)
      Back(current, acc) ==
        LET item == [key |-> c.heap[current].key, value |-> c.heap[current].value]
            nxt == c.heap[current].prev
        IN  IF nxt = c.head \/ Len(acc) >= Cardinality(NodeIds)
            THEN Append(acc, item)
            ELSE Back(nxt, Append(acc, item))
  IN  IF c.head = null THEN <<>> ELSE Back(c.head, <<>>)

stateOf(c) == IF c.head = null THEN <<>> ELSE Walk(c, c.head, <<>>)

\* get(key): the returned value and the cache object after the call.
Miss == -1
getReturn(c, key) ==
  IF key \notin DOMAIN c.map THEN Miss ELSE c.heap[c.map[key]].value

\* get(key) going on after a miss with the tail as its node.
getEffect_missMovesTail(c, key) ==
  IF key \notin DOMAIN c.map
  THEN IF c.head = null THEN c ELSE moveToFront(c, c.heap[c.head].prev)
  ELSE moveToFront(c, c.map[key])

getEffect(c, key) ==
  IF key \notin DOMAIN c.map THEN c ELSE moveToFront(c, c.map[key])

\* Line 68 with > for >=.
isFull_greater(c) == Cardinality(DOMAIN c.map) > c.capacity.whole

\* Line 68 testing only that the map is not empty.
isFull_nonEmpty(c) == DOMAIN c.map # {}

\* put(key, value), line 68: this.map.size >= this.capacity
isFull(c) == AtLeast(Cardinality(DOMAIN c.map), c.capacity)

\* put(key, value), line 69: this.head.prev throws a TypeError when head is
\* null; nothing has been assigned by then.
putThrows(c, key) ==
  /\ key \notin DOMAIN c.map
  /\ isFull(c)
  /\ c.head = null

\* Lines 69-71 taking head for head.prev.
evict_head(c) ==
  LET tail == c.head
      c1 == removeNode(c, tail)
  IN  [c1 EXCEPT !.map = MapDelete(c1.map, c1.heap[tail].key)]

\* Lines 69-71 without line 71: the key stays in the map.
evict_keepsMapping(c) == removeNode(c, c.heap[c.head].prev)

\* put(key, value), lines 69-71: the eviction of the tail.
evict(c) ==
  LET tail == c.heap[c.head].prev
      c1 == removeNode(c, tail)
  IN  [c1 EXCEPT !.map = MapDelete(c1.map, c1.heap[tail].key)]

\* Lines 64-66 without line 65: the value is not assigned.
putExisting_noUpdate(c, key, value) == moveToFront(c, c.map[key])

\* Lines 64-66 replacing the node of the key by a new one.
putExisting_recreate(c, key, value) ==
  LET node == c.map[key]
      c1 == removeNode(c, node)
      newNode == Fresh(c1, {node}, key)
      c2 == [c1 EXCEPT !.heap = MapSet(c1.heap, newNode, Node(newNode, key, value))]
      c3 == addToFront(c2, newNode)
  IN  [c3 EXCEPT !.map = MapSet(c3.map, key, newNode)]

\* put(key, value), lines 64-66: the key is in the map.
putExisting(c, key, value) ==
  LET node == c.map[key]
      c1 == [c EXCEPT !.heap[node].value = value]
  IN  moveToFront(c1, node)

\* put(key, value), lines 68-75: the key is not in the map.
putNew(c, key, value) ==
  LET full == isFull(c)
      held == IF full THEN {c.heap[c.head].prev} ELSE {}
      c1 == IF full THEN evict(c) ELSE c
      newNode == Fresh(c1, held, key)
      c2 == [c1 EXCEPT !.heap = MapSet(c1.heap, newNode, Node(newNode, key, value))]
      c3 == addToFront(c2, newNode)
  IN  [c3 EXCEPT !.map = MapSet(c3.map, key, newNode)]

\* put(key, value) without the test of line 63.
putEffect_alwaysNew(c, key, value) == putNew(c, key, value)

\* put(key, value) when it does not throw, lines 63-76.
putEffect(c, key, value) ==
  IF key \in DOMAIN c.map
  THEN putExisting(c, key, value)
  ELSE putNew(c, key, value)

\* ----------------------------------------------------------------- history
\* What the claims compare the cache with.  Neither is read by the methods.

Max(S) == CHOOSE x \in S : \A y \in S : x >= y

\* lastUse after key k is used (a get hit or a put) and the keys in `present`
\* are the ones left: k is the latest, the order of the others is kept, and
\* the ranks are renumbered 1 .. n.
Touch(l, k, present) ==
  LET l1 == [l EXCEPT ![k] = 1 + Max({l[j] : j \in Keys})]
      l2 == [j \in Keys |-> IF j \in present THEN l1[j] ELSE 0]
  IN  [j \in Keys |->
         IF l2[j] = 0 THEN 0
         ELSE Cardinality({i \in Keys : l2[i] > 0 /\ l2[i] <= l2[j]})]

NeverUsed == [j \in Keys |-> 0]

RefKeys(r) == {r[i].key : i \in 1 .. Len(r)}
RefWithout(r, k) == SelectSeq(r, LAMBDA e : e.key # k)
RefValue(r, k) == (CHOOSE e \in {r[i] : i \in 1 .. Len(r)} : e.key = k).value
ButLast(r) == SubSeq(r, 1, Len(r) - 1)

\* The reference list after a get of k: a key it holds moves to the front.
RefGet(r, k) ==
  IF k \in RefKeys(r)
  THEN <<[key |-> k, value |-> RefValue(r, k)]>> \o RefWithout(r, k)
  ELSE r

\* The reference list after a put of (k, v) under capacity c: k moves to the
\* front with v; a new k first drops the last element of a full list.
RefPut(r, c, k, v) ==
  IF k \in RefKeys(r)
  THEN <<[key |-> k, value |-> v]>> \o RefWithout(r, k)
  ELSE <<[key |-> k, value |-> v]>>
         \o (IF AtLeast(Len(r), c) THEN ButLast(r) ELSE r)

\* ----------------------------------------------------------------- actions

NoKey == "-"
Returned(kind, value, list) == [kind |-> kind, value |-> value, list |-> list]
Undefined == Returned("undefined", 0, <<>>)

\* What the call now made follows: "put" or "get" for a get of the key that
\* the call before it has just put or got, "evict" for a get of the key that
\* the call before it has just dropped from the map, "state" for a state()
\* right after a state(), "-" otherwise.
After(op, key) ==
  IF op = "get" /\ call.op \in {"put", "get"} /\ call.key = key
       /\ ret.kind # "TypeError"
  THEN call.op
  ELSE IF op = "get" /\ call.op = "put" /\ key \in before \ DOMAIN map
  THEN "evict"
  ELSE IF op = "state" /\ call.op = "state" THEN "state" ELSE "-"

Called(op, key, value, cap) ==
  [op |-> op, key |-> key, value |-> value, cap |-> cap, after |-> After(op, key)]

\* The fields of the cache object c become the state.
Store(c) ==
  /\ capacity' = c.capacity
  /\ map' = c.map
  /\ head' = c.head
  /\ heap' = c.heap

Init ==
  /\ cache = "null"
  /\ capacity = Num(0)
  /\ map = EmptyMap
  /\ head = null
  /\ heap = EmptyMap
  /\ call = [op |-> "load", key |-> NoKey, value |-> 0, cap |-> Num(0), after |-> "-"]
  /\ ret = Undefined
  /\ before = {}
  /\ lastUse = NeverUsed
  /\ ref = <<>>

\* new LRUCache(c), lines 17-21: any capacity is taken as it is.
constructor(c) ==
  /\ cache = "null"
  /\ cache' = "LRUCache"
  /\ Store(LRUCache(c))
  /\ call' = Called("new", NoKey, 0, c)
  /\ ret' = Undefined
  /\ before' = {}
  /\ lastUse' = NeverUsed
  /\ ref' = <<>>

\* window.initCache, lines 97-107, with cap the Number read from the input.
\* The page elements it writes are not part of the state; updateDisplay()
\* calls state(), which changes nothing.
initCache(cap) ==
  /\ call' = Called("initCache", NoKey, 0, cap)
  /\ before' = DOMAIN map
  /\ IF Positive(cap)
     THEN /\ cache' = "LRUCache"
          /\ Store(LRUCache(cap))
          /\ ret' = Undefined
          /\ lastUse' = NeverUsed
          /\ ref' = <<>>
     ELSE /\ ret' = Returned("alert", 0, <<>>)
          /\ UNCHANGED <<cache, capacity, map, head, heap, lastUse, ref>>

\* get(key), lines 53-60.
get(key) ==
  /\ cache = "LRUCache"
  /\ Store(Collect(getEffect(This, key)))
  /\ call' = Called("get", key, 0, capacity)
  /\ ret' = Returned("value", getReturn(This, key), <<>>)
  /\ before' = DOMAIN map
  /\ lastUse' = IF key \in DOMAIN map THEN Touch(lastUse, key, DOMAIN map') ELSE lastUse
  /\ ref' = RefGet(ref, key)
  /\ UNCHANGED cache

\* put(key, value), lines 62-77.
put(key, value) ==
  /\ cache = "LRUCache"
  /\ call' = Called("put", key, value, capacity)
  /\ before' = DOMAIN map
  /\ IF putThrows(This, key)
     THEN /\ ret' = Returned("TypeError", 0, <<>>)
          /\ UNCHANGED <<cache, capacity, map, head, heap, lastUse, ref>>
     ELSE /\ key \in DOMAIN map \/ Free(This, {}) # {}
          /\ Store(Collect(putEffect(This, key, value)))
          /\ ret' = Undefined
          /\ lastUse' = Touch(lastUse, key, DOMAIN map')
          /\ ref' = RefPut(ref, capacity, key, value)
          /\ UNCHANGED cache

\* state() using this.head as the cursor of its walk.
state_advancesHead ==
  /\ cache = "LRUCache"
  /\ call' = Called("state", NoKey, 0, capacity)
  /\ ret' = Returned("list", 0, stateOf(This))
  /\ before' = DOMAIN map
  /\ head' = IF head = null THEN null ELSE heap[head].next
  /\ UNCHANGED <<cache, capacity, map, heap, lastUse, ref>>

\* state(), lines 79-90.
state ==
  /\ cache = "LRUCache"
  /\ call' = Called("state", NoKey, 0, capacity)
  /\ ret' = Returned("list", 0, stateOf(This))
  /\ before' = DOMAIN map
  /\ UNCHANGED <<cache, capacity, map, head, heap, lastUse, ref>>

Next ==
  \/ \E c \in Capacities : constructor(c)
  \/ \E c \in Capacities : initCache(c)
  \/ \E k \in Keys : get(k)
  \/ \E k \in Keys, v \in Values : put(k, v)
  \/ state

Spec == Init /\ [][Next]_vars

\* ------------------------------------------------------------------ claims

HasCache == cache = "LRUCache"
Size == Cardinality(DOMAIN map)
PositiveInteger(c) == IsInteger(c) /\ Positive(c)
ValueOf(k) == heap[map[k]].value
ListKeys(l) == {l[i].key : i \in 1 .. Len(l)}
RingKeys == ListKeys(stateOf(This))
\* The last call was a put that dropped a key from a full map.
Evicted ==
  /\ call.op = "put"
  /\ Num(Cardinality(before)) = capacity
  /\ Cardinality(before \ DOMAIN map) = 1

\* C1: in a cache constructed with a positive integer capacity, the number
\* of entries of the map is between 0 and the capacity, whatever was called.
C1_SizeWithinCapacity ==
  (HasCache /\ PositiveInteger(capacity)) => (0 <= Size /\ AtMost(Size, capacity))

C1_Witness ==
  /\ HasCache
  /\ capacity = Num(MaxCapacity)
  /\ Evicted
  /\ Size = MaxCapacity

\* C2: a put of a key that is not in a cache holding capacity entries
\* (capacity an integer >= 1) removes exactly one key, the one whose last
\* get hit or put is the oldest among the keys present, and adds the new key.
C2_EvictsLeastRecentlyUsed ==
  [][(/\ HasCache
      /\ call'.op = "put"
      /\ ret'.kind # "TypeError"
      /\ call'.key \notin DOMAIN map
      /\ PositiveInteger(capacity)
      /\ Num(Size) = capacity)
     => \E k \in DOMAIN map :
          /\ lastUse[k] > 0
          /\ \A j \in (DOMAIN map) \ {k} : lastUse[k] < lastUse[j]
          /\ DOMAIN map' = ((DOMAIN map) \ {k}) \cup {call'.key}
          /\ Size' = Size]_vars

C2_Witness ==
  /\ HasCache
  /\ capacity = Num(1)
  /\ Evicted
  /\ DOMAIN map = {call.key}

\* C3: with a capacity >= 1, get(key) called right after put(key, v) returns
\* v, whether the put added the key (evicting or not) or found it present.
C3_GetAfterPut ==
  [][(/\ call.op = "put"
      /\ ret.kind # "TypeError"
      /\ capacity.whole >= 1
      /\ call'.op = "get"
      /\ call'.key = call.key)
     => ret' = Returned("value", call.value, <<>>)]_vars

C3_Witness ==
  /\ call.op = "get"
  /\ call.after = "put"
  /\ capacity.whole >= 1
  /\ Num(Size) = capacity
  /\ ret = Returned("value", 0, <<>>)

\* C4: get of a key that the reference list does not hold (it was never put,
\* or it was dropped and not put again) returns the miss value -1 and does
\* not throw.
C4_MissOnAbsentKey ==
  (call.op = "get" /\ call.key \notin RefKeys(ref))
    => ret = Returned("value", Miss, <<>>)

C4_Witness ==
  /\ call.op = "get"
  /\ call.after = "evict"
  /\ call.key \notin RefKeys(ref)
  /\ ret = Returned("value", Miss, <<>>)

\* C5: a put of a key that was in the map leaves the set of keys (and so
\* their number) as it was and stores the value under the key, also when the
\* cache is full.
C5_PutExistingKeepsKeys ==
  (call.op = "put" /\ call.key \in before)
    => /\ DOMAIN map = before
       /\ ValueOf(call.key) = call.value
       /\ ret.kind = "undefined"

C5_Witness ==
  /\ call.op = "put"
  /\ call.key \in before
  /\ capacity = Num(MaxCapacity)
  /\ Size = MaxCapacity
  /\ ValueOf(call.key) = 0

\* C6: state() returns the reference list: the entries of the cache, each
\* once with the value last put, from the most to the least recently used;
\* the empty sequence for an empty cache.
C6_StateIsReference ==
  (call.op = "state")
    => /\ ret.list = ref
       /\ ListKeys(ret.list) = DOMAIN map
       /\ (Size = 0 => ret.list = <<>>)

C6_Witness ==
  /\ call.op = "state"
  /\ capacity = Num(2)
  /\ ret.list = <<[key |-> "c", value |-> 0], [key |-> "a", value |-> -1]>>
  /\ ref = ret.list

\* C7: state() returns as many elements as the map has entries, and the
\* first one is the key whose get hit or put is the latest among the keys
\* of the map.
C7_StateLengthAndFirst ==
  (call.op = "state")
    => /\ Len(ret.list) = Size
       /\ Size > 0 =>
            /\ ret.list[1].key \in DOMAIN map
            /\ \A j \in (DOMAIN map) \ {ret.list[1].key} :
                 lastUse[j] < lastUse[ret.list[1].key]

C7_Witness ==
  /\ call.op = "state"
  /\ Size = MaxCapacity
  /\ Len(ret.list) = MaxCapacity
  /\ lastUse[ret.list[1].key] = MaxCapacity

\* C8: state() changes nothing of the cache (head, links, map, values,
\* capacity), and a state() right after a state() returns the same sequence.
C8_StateHasNoEffect ==
  [][(call'.op = "state")
     => /\ UNCHANGED <<cache, capacity, map, head, heap>>
        /\ (call.op = "state" => ret' = ret)]_vars

C8_Witness ==
  /\ call.op = "state"
  /\ call.after = "state"
  /\ Len(ret.list) = MaxCapacity

\* C9: a get of a present key right after a get of the same key returns the
\* same value and leaves the number of entries, the keys of the map and the
\* keys of the ring as they were.
C9_RepeatedGet ==
  [][(/\ call.op = "get"
      /\ call.key \in DOMAIN map
      /\ call'.op = "get"
      /\ call'.key = call.key)
     => /\ ret' = ret
        /\ Size' = Size
        /\ DOMAIN map' = DOMAIN map
        /\ RingKeys' = RingKeys
        /\ RingKeys' = DOMAIN map']_vars

C9_Witness ==
  /\ call.op = "get"
  /\ call.after = "get"
  /\ call.key \in DOMAIN map
  /\ Size = MaxCapacity
  /\ ret.kind = "value"

\* C10: a construction with a capacity <= 0 is refused (the caller is told
\* of the invalid capacity) and makes no cache.
C10_NonPositiveCapacityRefused ==
  [][(call'.op \in {"new", "initCache"} /\ ~Positive(call'.cap))
     => /\ ret'.kind = "alert"
        /\ UNCHANGED <<cache, capacity, map, head, heap>>]_vars

\* The node reached from n by k steps along next, and along prev.
RECURSIVE NextN(_, _, _)
NextN(c, n, k) == IF k = 0 THEN n ELSE NextN(c, c.heap[n].next, k - 1)
RECURSIVE PrevN(_, _, _)
PrevN(c, n, k) == IF k = 0 THEN n ELSE PrevN(c, c.heap[n].prev, k - 1)
MapNodes(c) == {c.map[k] : k \in DOMAIN c.map}

\* C11: get on a present key never returns what get returns for an absent
\* key, the miss value, whatever value was stored.
C11_MissDiffersFromStoredValues ==
  (call.op = "get" /\ call.key \in before) => ret.value # Miss

\* C12: from head, Size steps along next come back to head and no fewer do,
\* likewise along prev, and the nodes passed are exactly the nodes of the map.
C12_RingIsOneCycleOfTheMap ==
  HasCache =>
    IF head = null
    THEN DOMAIN map = {}
    ELSE /\ NextN(This, head, Size) = head
         /\ \A i \in 1 .. (Size - 1) : NextN(This, head, i) # head
         /\ {NextN(This, head, i) : i \in 0 .. (Size - 1)} = MapNodes(This)
         /\ PrevN(This, head, Size) = head
         /\ \A i \in 1 .. (Size - 1) : PrevN(This, head, i) # head
         /\ {PrevN(This, head, i) : i \in 0 .. (Size - 1)} = MapNodes(This)
         /\ \A n \in MapNodes(This) : heap[heap[n].next].prev = n

C12_Witness ==
  /\ call.op = "get"
  /\ call.key \in before
  /\ Size = MaxCapacity
  /\ head = map[call.key]
  /\ NextN(This, head, MaxCapacity) = head

\* C13: the map is empty exactly when head is null.
C13_EmptyMapIffNullHead ==
  HasCache => (Size = 0 <=> head = null)

C13_Witness ==
  /\ Evicted
  /\ capacity = Num(1)
  /\ Size = 1
  /\ head # null
  /\ heap[head].next = head

\* C14: the node the map gives for a key carries that key, and no two nodes
\* of the ring carry the same key.
C14_KeysAgreeAndAreUnique ==
  HasCache =>
    /\ \A k \in DOMAIN map : heap[map[k]].key = k
    /\ Cardinality(RingKeys) = Len(stateOf(This))
    /\ \A i, j \in 0 .. (Size - 1) :
         (head # null /\ i # j)
           => heap[NextN(This, head, i)].key # heap[NextN(This, head, j)].key

C14_Witness ==
  /\ call.op = "put"
  /\ call.key \in before
  /\ Size = MaxCapacity
  /\ heap[head].key = call.key
  /\ Len(stateOf(This)) = MaxCapacity

\* C15: in a cache with a positive integer capacity no call has thrown, and
\* no put would: head.prev is not read while head is null.
C15_NoInternalViolation ==
  (HasCache /\ PositiveInteger(capacity))
    => /\ ret.kind # "TypeError"
       /\ \A k \in Keys : ~putThrows(This, k)

C15_Witness ==
  /\ Evicted
  /\ PositiveInteger(capacity)
  /\ capacity = Num(2)
  /\ ret.kind = "undefined"
  /\ head # null

\* C16: get and state remove no key; a put of a key that was present removes
\* none; a put of a new key removes at most one, and only from a map that
\* held at least capacity keys (exactly capacity, for an integer capacity).
C16_KeysLeaveOnlyByEviction ==
  /\ (call.op \in {"get", "state"}) => DOMAIN map = before
  /\ (call.op = "put" /\ call.key \in before) => before \subseteq DOMAIN map
  /\ (call.op = "put" /\ call.key \notin before)
       => /\ Cardinality(before \ DOMAIN map) <= 1
          /\ (before \ DOMAIN map # {})
               => /\ AtLeast(Cardinality(before), capacity)
                  /\ (PositiveInteger(capacity) => Num(Cardinality(before)) = capacity)

C16_Witness ==
  /\ Evicted
  /\ capacity = Num(MaxCapacity)
  /\ call.key \notin before
  /\ before \ DOMAIN map # {}

\* The entries of the ring of c from head along prev.
RECURSIVE WalkBack(_, _, _)
WalkBack(c, current, acc) ==
  LET item == [key |-> c.heap[current].key, value |-> c.heap[current].value]
      nxt == c.heap[current].prev
  IN  IF nxt = c.head \/ Len(acc) >= Cardinality(NodeIds)
      THEN Append(acc, item)
      ELSE WalkBack(c, nxt, Append(acc, item))
Reverse(l) == [i \in 1 .. Len(l) |-> l[Len(l) + 1 - i]]

\* C17: moveToFront of any node of the ring (head, middle or tail, in a ring
\* of any size) makes it head and leaves the other entries in the order they
\* had, along next and, reversed, along prev.
C17_MoveToFrontKeepsOrder ==
  HasCache =>
    \A k \in DOMAIN map :
      LET c2 == moveToFront(This, map[k])
          entry == [key |-> k, value |-> ValueOf(k)]
          others == SelectSeq(stateOf(This), LAMBDA e : e.key # k)
      IN  /\ c2.head = map[k]
          /\ stateOf(c2) = <<entry>> \o others
          /\ WalkBack(c2, c2.head, <<>>) = <<entry>> \o Reverse(others)
          /\ c2.map = map

C17_Witness ==
  /\ call.op = "get"
  /\ call.key \in before
  /\ call.after = "-"
  /\ Size = MaxCapacity
  /\ head = map[call.key]
  /\ stateOf(This)[1].key = call.key

\* C18: a put of a key that is in the map leaves the map on the same node,
\* which becomes head and carries the new value; a node that was not in the
\* heap appears only with a put of a key that was not in the map.
C18_PutExistingKeepsNode ==
  [][/\ (call'.op = "put" /\ call'.key \in DOMAIN map)
          => /\ map'[call'.key] = map[call'.key]
             /\ head' = map[call'.key]
             /\ heap'[head'].value = call'.value
             /\ DOMAIN heap' = DOMAIN heap
     /\ (HasCache /\ (DOMAIN heap') \ (DOMAIN heap) # {})
          => /\ call'.op = "put"
             /\ call'.key \notin DOMAIN map
             /\ (DOMAIN heap') \ (DOMAIN heap) = {map'[call'.key]}]_vars

C18_Witness ==
  /\ call.op = "put"
  /\ call.key \in before
  /\ capacity = Num(2)
  /\ Size = 2
  /\ head = map[call.key]
  /\ ValueOf(call.key) = call.value

\* C19: no cache has a capacity that is not an integer, so none holds more
\* entries than such a capacity.
C19_NoCacheBeyondFractionalCapacity ==
  (HasCache /\ ~IsInteger(capacity)) => AtMost(Size, capacity)

\* C20: a get of a key that is not in the map changes nothing of the cache,
\* and state() would return what it returned before.
C20_MissHasNoEffect ==
  [][(call'.op = "get" /\ call'.key \notin DOMAIN map)
     => /\ UNCHANGED <<cache, capacity, map, head, heap>>
        /\ stateOf(This)' = stateOf(This)
        /\ ret' = Returned("value", Miss, <<>>)]_vars

C20_Witness ==
  /\ call.op = "get"
  /\ call.key \notin DOMAIN map
  /\ call.after = "-"
  /\ Size = MaxCapacity
  /\ ret = Returned("value", Miss, <<>>)

====
